---- MODULE Spec2Model ----
(***************************************************************************)
(* Image download pipeline of packages/api/src/features/fal.ts:            *)
(* URL validation (SSRF guard), per-image download, the batch download     *)
(* (worker pool and Promise.all), and the zip archive built from the       *)
(* successful downloads.                                                   *)
(*                                                                         *)
(* Text (URLs, host names, IP addresses) is a sequence of one-character    *)
(* strings, so that prefix, suffix, split and case folding are computed    *)
(* character by character as the code does.                                *)
(***************************************************************************)
EXTENDS Integers, Sequences, FiniteSets, TLC

VARIABLES
    arg,        \* input of the function called (address, URL text)
    ret,        \* its result: <<>> until the call has returned, then <<value>>
    pc,         \* validateImageUrl: "start", "lookup" (awaiting DNS), "done"
    resolved,   \* validateImageUrl: the answer of dns.promises.lookup, <<>> before
    \* --- one request: a call of downloadImage, downloadWithConcurrency or
    \*     the downloadImageZip mutation (which calls createImageZip)
    op,         \* the operation called
    urls,       \* its input list of URL texts
    concurrency,\* the concurrency argument of downloadWithConcurrency
    phase,      \* "called", "spawning", "running", "zipped", "zipFailed",
                \* "returned", "thrown"
    spawned,    \* number of workers / per-URL downloads started so far
    nextIndex,  \* downloadWithConcurrency: the shared cursor (0-based)
    results,    \* results / downloadResults: one slot per input URL
    tpc,        \* per task: "lookup", "fetch", "body", "stalled", "rejected", "exit"
    tidx,       \* per task: the (1-based) position of the URL it is downloading
    zip,        \* the archive: its entries in order, each a name and a size
    thrown,     \* the error the operation threw, "" when none
    imageCount, \* the imageCount field of the mutation's response, -1 before
    \* --- history, for stating properties
    verdict,    \* per URL position: what validateImageUrl decided in its download
    requests,   \* per URL position: number of fetch() calls issued for it
    settled,    \* per URL position: "none", or how its downloadImage call ended
    log,        \* per URL position: what its download met (addresses, response,
                \* body, error)
    calls,      \* per URL position: number of downloadImage calls made for it
    writes      \* per URL position: number of times its result slot was written

ipVars == <<arg, ret, pc, resolved>>
batchVars == <<op, urls, concurrency, phase, spawned, nextIndex, results, tpc,
               tidx, zip, thrown, imageCount, verdict, requests, settled,
               log, calls, writes>>
vars == <<ipVars, batchVars>>

(***************************************************************************)
(* Text helpers (JavaScript String methods).                               *)
(***************************************************************************)
StartsWith(s, p) ==
    /\ Len(p) <= Len(s)
    /\ SubSeq(s, 1, Len(p)) = p

EndsWith(s, p) ==
    /\ Len(p) <= Len(s)
    /\ SubSeq(s, Len(s) - Len(p) + 1, Len(s)) = p

UpperLetters == <<"A","B","C","D","E","F","G","H","I","J","K","L","M",
                  "N","O","P","Q","R","S","T","U","V","W","X","Y","Z">>
LowerLetters == <<"a","b","c","d","e","f","g","h","i","j","k","l","m",
                  "n","o","p","q","r","s","t","u","v","w","x","y","z">>

LowerChar(c) ==
    IF \E i \in 1..26 : UpperLetters[i] = c
    THEN LowerLetters[CHOOSE i \in 1..26 : UpperLetters[i] = c]
    ELSE c

UpperChar(c) ==
    IF \E i \in 1..26 : LowerLetters[i] = c
    THEN UpperLetters[CHOOSE i \in 1..26 : LowerLetters[i] = c]
    ELSE c

toLowerCase(s) == [i \in 1..Len(s) |-> LowerChar(s[i])]

toUpperCase(s) == [i \in 1..Len(s) |-> UpperChar(s[i])]

\* s.split(sep) for a one-character separator: the pieces between separators
RECURSIVE SplitFrom(_, _, _, _)
SplitFrom(s, sep, i, cur) ==
    IF i > Len(s) THEN <<cur>>
    ELSE IF s[i] = sep THEN <<cur>> \o SplitFrom(s, sep, i + 1, <<>>)
    ELSE SplitFrom(s, sep, i + 1, Append(cur, s[i]))

split(s, sep) == SplitFrom(s, sep, 1, <<>>)

DecDigits == <<"0","1","2","3","4","5","6","7","8","9">>
HexDigits == <<"0","1","2","3","4","5","6","7","8","9","a","b","c","d","e","f">>

IsDecDigit(c) == \E i \in 1..10 : DecDigits[i] = c
IsHexDigit(c) == \E i \in 1..16 : HexDigits[i] = LowerChar(c)
DecVal(c) == (CHOOSE i \in 1..10 : DecDigits[i] = c) - 1

\* Number(text) for a string of decimal digits
RECURSIVE Number(_)
Number(s) ==
    IF Len(s) = 0 THEN 0
    ELSE 10 * Number(SubSeq(s, 1, Len(s) - 1)) + DecVal(s[Len(s)])

RECURSIVE ToDec(_)
ToDec(n) ==
    IF n < 10 THEN <<DecDigits[n + 1]>>
    ELSE ToDec(n \div 10) \o <<DecDigits[(n % 10) + 1]>>

RECURSIVE ToHex(_)
ToHex(n) ==
    IF n < 16 THEN <<HexDigits[n + 1]>>
    ELSE ToHex(n \div 16) \o <<HexDigits[(n % 16) + 1]>>

RECURSIVE Join(_, _)
Join(parts, sep) ==
    IF Len(parts) = 0 THEN <<>>
    ELSE IF Len(parts) = 1 THEN parts[1]
    ELSE parts[1] \o <<sep>> \o Join(Tail(parts), sep)

(***************************************************************************)
(* Addresses.  An IPv4 address is its four octets, an IPv6 address its     *)
(* eight 16-bit groups.  dns.lookup hands the address to the validator as  *)
(* text; ntop4 / ntop6 print it the way the resolver does, and the other   *)
(* spellings are the further forms net.isIPv6 accepts.                     *)
(***************************************************************************)
ntop4(o) == Join(<<ToDec(o[1]), ToDec(o[2]), ToDec(o[3]), ToDec(o[4])>>, ".")

\* length of the run of zero groups of h that starts at group i
RECURSIVE ZeroRun(_, _)
ZeroRun(h, i) == IF i > 8 \/ h[i] # 0 THEN 0 ELSE 1 + ZeroRun(h, i + 1)

\* the longest run of at least two zero groups, the first one on a tie
BestRun(h) ==
    LET best == CHOOSE i \in 1..8 :
                    /\ \A j \in 1..8 : ZeroRun(h, j) <= ZeroRun(h, i)
                    /\ \A j \in 1..(i - 1) : ZeroRun(h, j) < ZeroRun(h, i)
    IN  IF ZeroRun(h, best) >= 2
        THEN [base |-> best, len |-> ZeroRun(h, best)]
        ELSE [base |-> 0, len |-> 0]

\* the last 32 bits are printed as a dotted quad (IPv4-mapped and -compatible)
Dotted(h) ==
    LET b == BestRun(h)
    IN  /\ b.base = 1
        /\ \/ b.len = 6
           \/ b.len = 7 /\ h[8] # 1
           \/ b.len = 5 /\ h[6] = 65535

Low32(h) == <<h[7] \div 256, h[7] % 256, h[8] \div 256, h[8] % 256>>

RECURSIVE Ntop6From(_, _)
Ntop6From(h, i) ==
    LET b == BestRun(h)
        inRun == b.base # 0 /\ i >= b.base /\ i < b.base + b.len
    IN  IF i > 8
        THEN IF b.base # 0 /\ b.base + b.len = 9 THEN <<":">> ELSE <<>>
        ELSE IF inRun
        THEN (IF i = b.base THEN <<":">> ELSE <<>>) \o Ntop6From(h, i + 1)
        ELSE (IF i # 1 THEN <<":">> ELSE <<>>)
             \o (IF i = 7 /\ Dotted(h)
                 THEN ntop4(Low32(h))
                 ELSE ToHex(h[i]) \o Ntop6From(h, i + 1))

ntop6(h) == Ntop6From(h, 1)

\* every group written out, no "::" and no dotted quad
Full6(h) == Join([i \in 1..8 |-> ToHex(h[i])], ":")

\* the text of address a in spelling sp; family 0: a text that is no
\* address, taken as it is
Spell(a, sp) ==
    IF a.family = 0 THEN a.value
    ELSE IF a.family = 4 THEN ntop4(a.value)
    ELSE IF sp = "full" THEN Full6(a.value)
    ELSE IF sp = "upper" THEN toUpperCase(ntop6(a.value))
    ELSE ntop6(a.value)

(***************************************************************************)
(* net.isIPv4 / net.isIPv6: the recognisers isPrivateIP branches on.       *)
(***************************************************************************)
IsV4Seg(p) ==
    /\ Len(p) \in 1..3
    /\ \A i \in 1..Len(p) : IsDecDigit(p[i])
    /\ Len(p) > 1 => p[1] # "0"
    /\ Number(p) <= 255

isIPv4(s) ==
    LET parts == split(s, ".")
    IN  /\ Len(parts) = 4
        /\ \A i \in 1..4 : IsV4Seg(parts[i])

IsV6Seg(p) ==
    /\ Len(p) \in 1..4
    /\ \A i \in 1..Len(p) : IsHexDigit(p[i])

\* the groups of one side of the address; the empty side has none
Groups(s) == IF Len(s) = 0 THEN <<>> ELSE split(s, ":")

\* the groups are hex groups, the last one possibly a dotted quad
GroupsOk(g, v4Last) ==
    \A i \in 1..Len(g) :
        \/ IsV6Seg(g[i])
        \/ v4Last /\ i = Len(g) /\ isIPv4(g[i])

\* the number of 16-bit groups the side stands for
GroupCount(g) ==
    IF Len(g) > 0 /\ isIPv4(g[Len(g)]) THEN Len(g) + 1 ELSE Len(g)

isIPv6(s) ==
    IF \E i \in 1..(Len(s) - 1) : s[i] = ":" /\ s[i + 1] = ":"
    THEN LET i == CHOOSE k \in 1..(Len(s) - 1) :
                      /\ s[k] = ":" /\ s[k + 1] = ":"
                      /\ \A j \in 1..(k - 1) : ~(s[j] = ":" /\ s[j + 1] = ":")
             left == Groups(SubSeq(s, 1, i - 1))
             right == Groups(SubSeq(s, i + 2, Len(s)))
         IN  /\ GroupsOk(left, FALSE)
             /\ GroupsOk(right, TRUE)
             /\ Len(left) + GroupCount(right) <= 7
    ELSE LET g == Groups(s)
         IN  /\ GroupsOk(g, TRUE)
             /\ GroupCount(g) = 8

(***************************************************************************)
(* isPrivateIP                                                             *)
(***************************************************************************)
\* the IPv4 branch with the upper end of 172.16.0.0/12 one too far
isPrivateIPv4OffByOne(parts) ==
    \/ parts[1] = 10
    \/ parts[1] = 127
    \/ parts[1] = 172 /\ parts[2] >= 16 /\ parts[2] <= 32
    \/ parts[1] = 192 /\ parts[2] = 168
    \/ parts[1] = 169 /\ parts[2] = 254
    \/ parts[1] = 0
    \/ parts[1] = 100 /\ parts[2] >= 64 /\ parts[2] <= 127
    \/ parts[1] = 198 /\ parts[2] >= 18 /\ parts[2] <= 19

\* the IPv4 branch, on parts = ip.split(".").map(Number)
isPrivateIPv4(parts) ==
    \/ parts[1] = 10
    \/ parts[1] = 127
    \/ parts[1] = 172 /\ parts[2] >= 16 /\ parts[2] <= 31
    \/ parts[1] = 192 /\ parts[2] = 168
    \/ parts[1] = 169 /\ parts[2] = 254
    \/ parts[1] = 0
    \/ parts[1] = 100 /\ parts[2] >= 64 /\ parts[2] <= 127
    \/ parts[1] = 198 /\ parts[2] >= 18 /\ parts[2] <= 19

\* the IPv6 branch, on normalized = ip.toLowerCase()
isPrivateIPv6(normalized) ==
    \/ normalized = <<":", ":", "1">>
    \/ StartsWith(normalized, <<"f","e","8","0",":">>)
    \/ StartsWith(normalized, <<"f","c">>)
    \/ StartsWith(normalized, <<"f","d">>)
    \/ normalized = <<":", ":">>
    \/ StartsWith(normalized, <<":",":","f","f","f","f",":","1","2","7",".">>)
    \/ StartsWith(normalized, <<":",":","f","f","f","f",":","1","0",".">>)
    \/ StartsWith(normalized,
                  <<":",":","f","f","f","f",":","1","9","2",".","1","6","8",".">>)
    \/ StartsWith(normalized,
                  <<":",":","f","f","f","f",":","1","6","9",".","2","5","4",".">>)

\* isPrivateIP with a last line that lets an unrecognised text through
isPrivateIPFailOpen(ip) ==
    IF isIPv4(ip)
    THEN LET p == split(ip, ".")
         IN  isPrivateIPv4([i \in 1..Len(p) |-> Number(p[i])])
    ELSE IF isIPv6(ip)
    THEN isPrivateIPv6(toLowerCase(ip))
    ELSE FALSE

isPrivateIP(ip) ==
    IF isIPv4(ip)
    THEN LET p == split(ip, ".")
         IN  isPrivateIPv4([i \in 1..Len(p) |-> Number(p[i])])
    ELSE IF isIPv6(ip)
    THEN isPrivateIPv6(toLowerCase(ip))
    ELSE TRUE

(***************************************************************************)
(* The request variables while a function is called on its own.            *)
(***************************************************************************)
BatchIdle ==
    /\ op = "none"
    /\ urls = <<>>
    /\ concurrency = 0
    /\ phase = "idle"
    /\ spawned = 0
    /\ nextIndex = 0
    /\ results = <<>>
    /\ tpc = <<>>
    /\ tidx = <<>>
    /\ zip = <<>>
    /\ thrown = ""
    /\ imageCount = -1
    /\ verdict = <<>>
    /\ requests = <<>>
    /\ settled = <<>>
    /\ log = <<>>
    /\ calls = <<>>
    /\ writes = <<>>

(***************************************************************************)
(* The address ranges the validator is to refuse, as CIDR blocks on the    *)
(* numeric address (section 4.1, check 6).                                 *)
(***************************************************************************)
RECURSIVE Pow2(_)
Pow2(n) == IF n = 0 THEN 1 ELSE 2 * Pow2(n - 1)

\* the upper 16 bits of the address; every listed block is /16 or shorter
Hi16(o) == o[1] * 256 + o[2]

\* address o lies in the block base/len, len <= 16
InCidr4(o, base, len) ==
    Hi16(o) \div Pow2(16 - len) = Hi16(base) \div Pow2(16 - len)

ReservedV4(o) ==
    \/ InCidr4(o, <<0, 0, 0, 0>>, 8)
    \/ InCidr4(o, <<10, 0, 0, 0>>, 8)
    \/ InCidr4(o, <<127, 0, 0, 0>>, 8)
    \/ InCidr4(o, <<169, 254, 0, 0>>, 16)
    \/ InCidr4(o, <<172, 16, 0, 0>>, 12)
    \/ InCidr4(o, <<192, 168, 0, 0>>, 16)
    \/ InCidr4(o, <<100, 64, 0, 0>>, 10)
    \/ InCidr4(o, <<198, 18, 0, 0>>, 15)

IsMapped(h) == /\ \A i \in 1..5 : h[i] = 0
               /\ h[6] = 65535

ReservedV6(h) ==
    \/ h = <<0, 0, 0, 0, 0, 0, 0, 1>>                   \* loopback
    \/ h = <<0, 0, 0, 0, 0, 0, 0, 0>>                   \* unspecified
    \/ h[1] \div 64 = 65152 \div 64                     \* fe80::/10
    \/ h[1] \div 512 = 64512 \div 512                   \* fc00::/7
    \/ IsMapped(h) /\ ReservedV4(Low32(h))              \* ::ffff:a.b.c.d

Reserved(a) ==
    IF a.family = 4 THEN ReservedV4(a.value) ELSE ReservedV6(a.value)

(***************************************************************************)
(* Sample addresses: the octets on and next to every block boundary.       *)
(***************************************************************************)
OctetA == {0, 1, 9, 10, 11, 52, 99, 100, 101, 126, 127, 128, 168, 169, 170,
           171, 172, 173, 191, 192, 193, 197, 198, 199, 223, 255}
OctetB == {0, 1, 15, 16, 17, 18, 19, 20, 31, 32, 63, 64, 65, 84, 127, 128,
           167, 168, 169, 253, 254, 255}
OctetCD == {<<0, 0>>, <<0, 1>>, <<169, 254>>, <<255, 255>>}

V4Samples == {<<a, b, cd[1], cd[2]>> : a \in OctetA, b \in OctetB, cd \in OctetCD}

MappedA == {0, 8, 10, 100, 127, 169, 172, 192, 198}
MappedB == {0, 16, 18, 64, 168, 254}

Mapped(o) == <<0, 0, 0, 0, 0, 65535, o[1] * 256 + o[2], o[3] * 256 + o[4]>>

V6Samples ==
    {<<0, 0, 0, 0, 0, 0, 0, 1>>, <<0, 0, 0, 0, 0, 0, 0, 0>>,
     <<0, 0, 0, 0, 0, 0, 0, 2>>,
     <<65152, 0, 0, 0, 0, 0, 0, 1>>,      \* fe80::1
     <<65168, 0, 0, 0, 0, 0, 0, 1>>,      \* fe90::1
     <<65215, 0, 0, 0, 0, 0, 0, 1>>,      \* febf::1
     <<65216, 0, 0, 0, 0, 0, 0, 1>>,      \* fec0::1
     <<65024, 0, 0, 0, 0, 0, 0, 1>>,      \* fe00::1
     <<64512, 0, 0, 0, 0, 0, 0, 1>>,      \* fc00::1
     <<64768, 0, 0, 0, 0, 0, 0, 1>>,      \* fd00::1
     <<65023, 4660, 0, 0, 0, 0, 0, 1>>,   \* fdff:1234::1
     <<64511, 0, 0, 0, 0, 0, 0, 1>>,      \* fbff::1
     <<252, 0, 0, 0, 0, 0, 0, 1>>,        \* fc::1
     <<4048, 0, 0, 0, 0, 0, 0, 1>>,       \* fd0::1
     <<8193, 3512, 0, 0, 0, 0, 0, 1>>,    \* 2001:db8::1
     <<9734, 18176, 18176, 0, 0, 0, 0, 4369>>}
    \cup {Mapped(<<a, b, 0, 1>>) : a \in MappedA, b \in MappedB}

Spellings == {"canonical", "full", "upper"}

Addresses ==
    {[family |-> 4, value |-> o] : o \in V4Samples}
    \cup {[family |-> 6, value |-> h] : h \in V6Samples}

IPInputs ==
    {[addr |-> a, sp |-> sp] : a \in Addresses, sp \in Spellings}

\* texts that are neither an IPv4 nor an IPv6 address: empty, a name, an
\* octet over 255, too few or too many parts, a leading zero, a trailing
\* space, ":::", a group of five digits, nine groups, a non-hex digit, a bad
\* dotted quad, two "::", too few groups
NonAddressTexts ==
    {<<>>,
     <<"n","o","t","-","a","n","-","i","p">>,
     <<"9","9","9",".","1",".","1",".","1">>,
     <<"8",".","8",".","8">>,
     <<"8",".","8",".","8",".","8",".">>,
     <<"1",".","2",".","3",".","4",".","5">>,
     <<"0","1",".","2",".","3",".","4">>,
     <<"8",".","8",".","8",".","8"," ">>,
     <<":",":",":">>,
     <<"1","2","3","4","5",":",":","1">>,
     <<"1",":","2",":","3",":","4",":","5",":","6",":","7",":","8",":","9">>,
     <<"g",":",":","1">>,
     <<":",":","f","f","f","f",":","9","9","9",".","0",".","0",".","1">>,
     <<"1",":",":","2",":",":","3">>,
     <<"2","0","0","1",":","d","b","8">>}

NonAddresses == {[family |-> 0, value |-> t] : t \in NonAddressTexts}

(***************************************************************************)
(* Specification of isPrivateIP as a function of the address text.         *)
(***************************************************************************)
InitIP ==
    /\ arg \in {x \in IPInputs : x.addr.family = 4 => x.sp = "canonical"}
               \cup {[addr |-> a, sp |-> "canonical"] : a \in NonAddresses}
    /\ ret = <<>>
    /\ pc = "idle"
    /\ resolved = <<>>
    /\ BatchIdle

CallIsPrivateIP ==
    /\ ret = <<>>
    /\ ret' = <<isPrivateIP(Spell(arg.addr, arg.sp))>>
    /\ UNCHANGED <<arg, pc, resolved, batchVars>>

NextIP == CallIsPrivateIP

SpecIP == InitIP /\ [][NextIP]_vars

\* C9: an IPv4 address is classified private exactly when it lies in one of
\* the eight listed blocks; every other IPv4 address is classified public.
C9_IPv4Exact ==
    (ret # <<>> /\ arg.addr.family = 4) => (ret = <<ReservedV4(arg.addr.value)>>)

\* 172.32.0.0, the first address after 172.16.0.0/12, has been classified public
C9_Witness ==
    /\ ret = <<FALSE>>
    /\ arg.addr = [family |-> 4, value |-> <<172, 32, 0, 0>>]

\* C8: every IPv6 address that is loopback, unspecified, link-local
\* (fe80::/10), unique-local (fc00::/7) or the IPv4-mapped form of a reserved
\* IPv4 address is classified private, in every spelling of the address.
C8_IPv6ReservedRejected ==
    (ret # <<>> /\ arg.addr.family = 6 /\ ReservedV6(arg.addr.value))
        => (ret = <<TRUE>>)

\* ::ffff:127.0.0.1 as the resolver prints it has been classified private
C8_Witness ==
    /\ ret = <<TRUE>>
    /\ arg = [addr |-> [family |-> 6, value |-> Mapped(<<127, 0, 0, 1>>)],
              sp |-> "canonical"]

\* C11: isPrivateIP returns true for every text that is neither a valid IPv4
\* nor a valid IPv6 address, the empty text included.
C11_FailClosed ==
    (ret # <<>> /\ arg.addr.family = 0) => (ret = <<TRUE>>)

\* the empty text has been classified private
C11_Witness ==
    /\ ret = <<TRUE>>
    /\ arg.addr = [family |-> 0, value |-> <<>>]

(***************************************************************************)
(* URL text and new URL(url).  ParseURL splits the text into the fields    *)
(* validateImageUrl reads: protocol, username, password, hostname and      *)
(* pathname.                                                               *)
(***************************************************************************)
T_https == <<"h","t","t","p","s">>
T_http == <<"h","t","t","p">>
T_HTTPS == <<"H","T","T","P","S">>
T_ftp == <<"f","t","p">>
T_data == <<"d","a","t","a">>
T_file == <<"f","i","l","e">>
H_cdn ==
    <<"d","2","w","9","r","n","f","c","y","7","m","m","7","8",".","c","l",
      "o","u","d","f","r","o","n","t",".","n","e","t">>
H_arena == <<"a","r","e",".","n","a">>
H_images == <<"i","m","a","g","e","s",".","a","r","e",".","n","a">>
H_upper == <<"W","W","W",".","A","r","e",".","N","A">>
H_notarena == <<"n","o","t","a","r","e",".","n","a">>
H_evil == <<"e","v","i","l",".","c","o","m">>
H_localhost == <<"l","o","c","a","l","h","o","s","t">>
H_metadata == <<"1","6","9",".","2","5","4",".","1","6","9",".","2","5","4">>
H_suffixed == <<"a","r","e",".","n","a",".","e","v","i","l",".","c","o","m">>
H_cloudfront == <<"c","l","o","u","d","f","r","o","n","t",".","n","e","t">>
H_xcdn ==
    <<"x","d","2","w","9","r","n","f","c","y","7","m","m","7","8",".","c",
      "l","o","u","d","f","r","o","n","t",".","n","e","t">>
H_dotarena == <<".","a","r","e",".","n","a">>
D_arena == <<".","a","r","e",".","n","a">>
U_user == <<"u","s","e","r","@">>
U_userpass == <<"u","s","e","r",":","p","a","s","s","@">>
U_pass == <<":","p","a","s","s","@">>
P_jpg ==
    <<"/","1","2","3","4","5","/","o","r","i","g","i","n","a","l","_","t",
      "e","s","t",".","j","p","g">>
P_none == <<>>
P_noext == <<"/","a","/","b","/","p","h","o","t","o">>
G_notaurl == <<"n","o","t","-","a","-","u","r","l">>
G_empty == <<>>
G_nohost == <<"h","t","t","p","s",":","/","/">>
G_space ==
    <<"h","t","t","p","s",":","/","/","a","r","e"," ","n","a","/","i",".",
      "j","p","g">>

Letters == {LowerLetters[i] : i \in 1..26} \cup {UpperLetters[i] : i \in 1..26}
SchemeChars == Letters \cup {DecDigits[i] : i \in 1..10} \cup {"+", "-", "."}
SpecialSchemes == {T_https, T_http, T_ftp}
ForbiddenHostChars == {" ", "<", ">", "^", "|", "%", "[", "]", "\\"}

\* the index of the first / last occurrence of c in s, 0 when there is none
IndexOf(s, c) ==
    IF \E i \in 1..Len(s) : s[i] = c
    THEN CHOOSE i \in 1..Len(s) : s[i] = c /\ \A j \in 1..(i - 1) : s[j] # c
    ELSE 0

LastIndexOf(s, c) ==
    IF \E i \in 1..Len(s) : s[i] = c
    THEN CHOOSE i \in 1..Len(s) : s[i] = c /\ \A j \in (i + 1)..Len(s) : s[j] # c
    ELSE 0

\* s without its leading slashes
RECURSIVE SkipSlashes(_)
SkipSlashes(s) ==
    IF Len(s) > 0 /\ s[1] = "/" THEN SkipSlashes(Tail(s)) ELSE s

\* the index of the first character that ends the authority, Len(s)+1 if none
AuthorityEnd(s) ==
    IF \E i \in 1..Len(s) : s[i] \in {"/", "?", "#"}
    THEN CHOOSE i \in 1..Len(s) :
             /\ s[i] \in {"/", "?", "#"}
             /\ \A j \in 1..(i - 1) : s[j] \notin {"/", "?", "#"}
    ELSE Len(s) + 1

\* the path up to the query or fragment; "/" when the URL has none
PathOf(s) ==
    LET cut == IF \E i \in 1..Len(s) : s[i] \in {"?", "#"}
               THEN (CHOOSE i \in 1..Len(s) :
                         /\ s[i] \in {"?", "#"}
                         /\ \A j \in 1..(i - 1) : s[j] \notin {"?", "#"}) - 1
               ELSE Len(s)
        p == SubSeq(s, 1, cut)
    IN  IF Len(p) = 0 THEN <<"/">> ELSE p

InvalidURL == [ok |-> FALSE]

ParseURL(url) ==
    LET colon == IndexOf(url, ":")
        scheme == toLowerCase(SubSeq(url, 1, colon - 1))
        rest == SubSeq(url, colon + 1, Len(url))
    IN  IF \/ colon <= 1
           \/ url[1] \notin Letters
           \/ \E i \in 1..(colon - 1) : url[i] \notin SchemeChars
        THEN InvalidURL
        ELSE IF scheme \notin SpecialSchemes
        THEN [ok |-> TRUE, protocol |-> scheme \o <<":">>, username |-> <<>>,
              password |-> <<>>, hostname |-> <<>>, pathname |-> rest]
        ELSE
        LET r == SkipSlashes(rest)
            e == AuthorityEnd(r)
            authority == SubSeq(r, 1, e - 1)
            at == LastIndexOf(authority, "@")
            userinfo == SubSeq(authority, 1, at - 1)
            hostport == SubSeq(authority, at + 1, Len(authority))
            uc == IndexOf(userinfo, ":")
            hc == IndexOf(hostport, ":")
            host == IF hc = 0 THEN hostport ELSE SubSeq(hostport, 1, hc - 1)
        IN  IF \/ Len(host) = 0
               \/ \E i \in 1..Len(host) : host[i] \in ForbiddenHostChars
            THEN InvalidURL
            ELSE [ok |-> TRUE,
                  protocol |-> scheme \o <<":">>,
                  username |-> IF uc = 0 THEN userinfo
                               ELSE SubSeq(userinfo, 1, uc - 1),
                  password |-> IF uc = 0 THEN <<>>
                               ELSE SubSeq(userinfo, uc + 1, Len(userinfo)),
                  hostname |-> toLowerCase(host),
                  pathname |-> PathOf(SubSeq(r, e, Len(r)))]

(***************************************************************************)
(* validateImageUrl                                                        *)
(***************************************************************************)
ALLOWED_IMAGE_DOMAINS == <<H_cdn, D_arena>>

\* the suffix entry compared without its leading dot
DomainMatchesBareSuffix(hostname, domain) ==
    IF StartsWith(domain, <<".">>)
    THEN EndsWith(hostname, Tail(domain))
    ELSE hostname = domain

\* the callback of ALLOWED_IMAGE_DOMAINS.some(...)
DomainMatches(hostname, domain) ==
    IF StartsWith(domain, <<".">>)
    THEN hostname = Tail(domain) \/ EndsWith(hostname, domain)
    ELSE hostname = domain

isAllowed(hostname) ==
    \E i \in 1..Len(ALLOWED_IMAGE_DOMAINS) :
        DomainMatches(hostname, ALLOWED_IMAGE_DOMAINS[i])

\* the same checks with the one on credentials made before the one on the
\* scheme
validateStaticCredentialsFirst(url) ==
    LET parsed == ParseURL(url)
    IN  IF ~parsed.ok THEN "InvalidUrl"
        ELSE IF Len(parsed.username) > 0 \/ Len(parsed.password) > 0
        THEN "CredentialsInUrl"
        ELSE IF parsed.protocol # T_https \o <<":">> THEN "SchemeNotAllowed"
        ELSE IF ~isAllowed(toLowerCase(parsed.hostname)) THEN "DomainNotAllowed"
        ELSE "lookup"

\* the checks made before the DNS lookup: the error thrown, or "lookup"
validateStatic(url) ==
    LET parsed == ParseURL(url)
    IN  IF ~parsed.ok THEN "InvalidUrl"
        ELSE IF parsed.protocol # T_https \o <<":">> THEN "SchemeNotAllowed"
        ELSE IF Len(parsed.username) > 0 \/ Len(parsed.password) > 0
        THEN "CredentialsInUrl"
        ELSE IF ~isAllowed(toLowerCase(parsed.hostname)) THEN "DomainNotAllowed"
        ELSE "lookup"

\* the checks made on the lookup's answer: a failure, or an address
DnsFailure == [failed |-> TRUE]

validateResolved(answer) ==
    IF answer.failed THEN "DnsResolutionFailed"
    ELSE IF isPrivateIP(answer.address) THEN "PrivateIpRejected"
    ELSE "ok"

\* what dns.promises.lookup answers for address a
LookupAnswer(a) ==
    [failed |-> FALSE, address |-> Spell(a, "canonical"), family |-> a.family,
     addr |-> a]

(***************************************************************************)
(* Specification of validateImageUrl: one call on one URL, the resolver    *)
(* answering with any sample address or failing.                           *)
(***************************************************************************)
Schemes == {T_https, T_http, T_HTTPS, T_ftp}
UserInfos == {<<>>, U_user, U_userpass, U_pass}
Hosts == {H_cdn, H_arena, H_images, H_upper, H_notarena, H_evil, H_localhost,
          H_metadata, H_suffixed, H_cloudfront, H_xcdn, H_dotarena}
Paths == {P_jpg, P_none, P_noext}

UrlText(scheme, userinfo, host, path) ==
    scheme \o <<":", "/", "/">> \o userinfo \o host \o path

Garbage == {G_notaurl, G_empty, G_nohost, G_space,
            T_data \o <<":">> \o P_noext, T_file \o <<":", "/", "/">> \o P_jpg}

ValidateInputs ==
    {UrlText(sc, u, h, p) : sc \in Schemes, u \in UserInfos, h \in Hosts, p \in Paths}
    \cup Garbage

DnsAddresses ==
    {a \in Addresses : a.family = 4 => <<a.value[3], a.value[4]>> = <<0, 1>>}
    \cup {[family |-> 4, value |-> <<169, 254, 169, 254>>],
          [family |-> 4, value |-> <<52, 84, 123, 45>>]}

InitValidate ==
    /\ arg \in ValidateInputs
    /\ ret = <<>>
    /\ pc = "start"
    /\ resolved = <<>>
    /\ BatchIdle

\* validateImageUrl up to its await: a check fails, or the lookup is pending
ValidateStart ==
    /\ pc = "start"
    /\ LET r == validateStatic(arg)
       IN  IF r = "lookup"
           THEN pc' = "lookup" /\ ret' = ret
           ELSE pc' = "done" /\ ret' = <<r>>
    /\ UNCHANGED <<arg, resolved, batchVars>>

\* the lookup settles and validateImageUrl runs to its end
ValidateLookup ==
    /\ pc = "lookup"
    /\ \E answer \in {DnsFailure} \cup {LookupAnswer(a) : a \in DnsAddresses} :
        /\ resolved' = <<answer>>
        /\ ret' = <<validateResolved(answer)>>
    /\ pc' = "done"
    /\ UNCHANGED <<arg, batchVars>>

NextValidate == ValidateStart \/ ValidateLookup

SpecValidate == InitValidate /\ [][NextValidate]_vars

\* the call passed the static checks and the lookup answered with an address
Answered == pc = "done" /\ resolved # <<>> /\ ~resolved[1].failed

\* C7: when the hostname passes the allowlist and the lookup returns an
\* address in a reserved range, validateImageUrl rejects with PrivateIpRejected.
C7_ReservedAnswerRejected ==
    (Answered /\ Reserved(resolved[1].addr)) => (ret = <<"PrivateIpRejected">>)

\* an allowlisted host that resolved to 169.254.169.254 has been rejected
C7_Witness ==
    /\ Answered
    /\ resolved[1].addr = [family |-> 4, value |-> <<169, 254, 169, 254>>]
    /\ ret = <<"PrivateIpRejected">>

\* the allowlist as stated: the exact CDN host, are.na itself, and every
\* host name that ends with ".are.na"
InAllowlist(h) ==
    \/ h = H_cdn
    \/ h = H_arena
    \/ EndsWith(h, <<".">> \o H_arena)

\* the URL parses, is https and carries no credentials: the domain check is
\* the one that decides
ReachesDomainCheck(url) ==
    /\ ParseURL(url).ok
    /\ ParseURL(url).protocol = T_https \o <<":">>
    /\ ParseURL(url).username = <<>>
    /\ ParseURL(url).password = <<>>

\* C12: the domain check passes exactly when the lower-cased hostname is an
\* exact allowlist entry, or is X or ends with ".X" for a suffix entry ".X";
\* every other hostname is rejected with DomainNotAllowed.
C12_AllowlistExact ==
    (pc # "start" /\ ReachesDomainCheck(arg)) =>
        ((ret = <<"DomainNotAllowed">>)
            <=> ~InAllowlist(toLowerCase(ParseURL(arg).hostname)))

\* the look-alike host notare.na has been rejected
C12_Witness ==
    /\ arg = UrlText(T_https, <<>>, H_notarena, P_jpg)
    /\ ret = <<"DomainNotAllowed">>

\* C10: when the URL is https, credential-free and allowlisted and the lookup
\* returns an address outside every reserved range, validateImageUrl accepts.
C10_PublicAnswerAccepted ==
    (Answered /\ ~Reserved(resolved[1].addr)) => (ret = <<"ok">>)

\* an allowlisted host that resolved to 52.84.123.45 has been accepted
C10_Witness ==
    /\ Answered
    /\ resolved[1].addr = [family |-> 4, value |-> <<52, 84, 123, 45>>]
    /\ ret = <<"ok">>

(***************************************************************************)
(* downloadImage: the file name of a downloaded image.                     *)
(***************************************************************************)
ImageExtensions == {<<".","j","p","g">>, <<".","j","p","e","g">>,
                    <<".","p","n","g">>, <<".","g","i","f">>,
                    <<".","w","e","b","p">>}

\* /\.(jpg|jpeg|png|gif|webp)$/i.test(filename)
hasExtension(filename) ==
    \E e \in ImageExtensions : EndsWith(toLowerCase(filename), e)

\* urlPath.split("/").pop()
LastSegment(urlPath) ==
    LET parts == split(urlPath, "/") IN parts[Len(parts)]

\* `image_${Date.now()}.jpg`
DefaultName(now) == <<"i","m","a","g","e","_">> \o ToDec(now) \o <<".","j","p","g">>

\* the name taken from the URL as it is, no extension added
finalFilenameAsIs(url, now) ==
    LET last == LastSegment(ParseURL(url).pathname)
    IN  IF Len(last) > 0 THEN last ELSE DefaultName(now)

finalFilename(url, now) ==
    LET last == LastSegment(ParseURL(url).pathname)
        filename == IF Len(last) > 0 THEN last ELSE DefaultName(now)
    IN  IF hasExtension(filename) THEN filename ELSE filename \o <<".","j","p","g">>

\* a slot of the result list: null, or { filename, data } (data by its length)
Null == [ok |-> FALSE]
Success(filename, size) == [ok |-> TRUE, filename |-> filename, size |-> size]

MinImageBytes == 1024

(***************************************************************************)
(* One request.  Bounds and sample inputs.                                 *)
(***************************************************************************)
MaxUrls == 3
MaxConcurrency == 2

\* short URL texts, one per way a download can go
U_good == <<"h","t","t","p","s",":","/","/","a","r","e",".","n","a","/","a",".","j","p","g">>
U_noext ==
    <<"h","t","t","p","s",":","/","/","i",".","a","r","e",".","n","a","/","p","/","b">>
U_http == <<"h","t","t","p",":","/","/","a","r","e",".","n","a","/","a",".","j","p","g">>
U_creds ==
    <<"h","t","t","p","s",":","/","/","u",":","p","@","a","r","e",".","n","a","/","a",".","j","p","g">>
U_evil ==
    <<"h","t","t","p","s",":","/","/","e","v","i","l",".","c","o","m","/","a",".","j","p","g">>
U_nopath == <<"h","t","t","p","s",":","/","/","a","r","e",".","n","a","/">>
U_upperext ==
    <<"h","t","t","p","s",":","/","/","a","r","e",".","n","a","/","A",".","P","N","G">>

\* the URLs of a batch: two that pass the static checks, one that does not
BatchUrls == {U_good, U_noext, U_http}

\* the URLs of a single downloadImage call: every static check can fail
SingleUrls == BatchUrls \cup {U_creds, U_evil, U_nopath, U_upperext, G_notaurl}

\* the input schema of downloadImageZip: z.string().url().refine(url =>
\* url.startsWith("https://")), in an array of at least one
InputUrlOk(u) == StartsWith(u, T_https \o <<":", "/", "/">>)

MutationUrls == {u \in BatchUrls \cup {U_evil} : InputUrlOk(u)}

\* the concurrency createImageZip is to download with
DefaultConcurrency == 5

\* a batch of one more image than that
FullBatch == [i \in 1..(DefaultConcurrency + 1) |-> U_good]

Operations == {"downloadImage", "downloadWithConcurrency", "downloadImageZip"}

\* what the resolver may answer during a request
BatchDns ==
    {DnsFailure,
     LookupAnswer([family |-> 4, value |-> <<52, 84, 123, 45>>]),
     LookupAnswer([family |-> 4, value |-> <<169, 254, 169, 254>>])}

\* what validateImageUrl makes of each of these answers
BatchVerdict == [answer \in BatchDns |-> validateResolved(answer)]

\* what the server may do to a request: nothing that reaches fetch (a network
\* error, FetchRejected), a 3xx answer naming another location (Redirect), or
\* a response, of which the code reads ok and content-type.  contentType is
\* the text of the header, empty when the response has none; contentLength
\* is the Content-Length header, -1 when the response has none.
FetchRejected == [rejected |-> TRUE]
Redirect == [rejected |-> FALSE, redirect |-> TRUE]
T_image == <<"i", "m", "a", "g", "e", "/">>
Responses ==
    {FetchRejected, Redirect}
    \cup {[rejected |-> FALSE, ok |-> k, contentType |-> c, contentLength |-> n] :
            k \in BOOLEAN,
            c \in {<<>>,
                   T_image \o <<"j", "p", "e", "g">>,
                   T_image \o <<"p", "n", "g">>,
                   <<"i", "m", "a", "g", "e">>,
                   <<"I", "m", "a", "g", "e", "/", "p", "n", "g">>,
                   <<"t", "e", "x", "t", "/", "h", "t", "m", "l">>},
            n \in {-1, 2048, 5242881}}

\* the byte length of a body; -1: reading the body failed
BodySizes == {-1, 512, 1023, 1024, 1025, 4096, 5242880, 5242881}
Timestamps == {17, 18}

\* a single call of downloadImage meets every outcome above; the downloads of
\* a batch meet one of each kind: a validation that fails or passes, a
\* response whose body is too small or is a large image of 5 MB
IsBatch(o) == o # "downloadImage"
ResponsesFor(o) ==
    IF IsBatch(o)
    THEN {[rejected |-> FALSE, ok |-> TRUE,
           contentType |-> T_image \o <<"j", "p", "e", "g">>,
           contentLength |-> -1]}
    ELSE Responses
SizesFor(o) == IF IsBatch(o) THEN {512, 5242880} ELSE BodySizes
TimestampsFor(o) == IF IsBatch(o) THEN {17} ELSE Timestamps

\* what the static checks of validateImageUrl make of each sample URL
UrlTable ==
    [u \in SingleUrls |-> [static |-> validateStatic(u)]]

\* the log of a URL position before its fetch has met anything
NoLog == [response |-> <<>>, bodyRead |-> FALSE, size |-> <<>>, error |-> "",
          followed |-> FALSE, checked |-> <<>>, connected |-> <<>>]

\* the answers the resolver may give when fetch(url), which is handed the URL
\* and not the address validateImageUrl examined, resolves the hostname for
\* its connection; in a batch the answer is the one the validator got
ConnectsFor(o, checked) ==
    IF IsBatch(o) THEN {checked[1]} ELSE {a \in BatchDns : ~a.failed}

Min(a, b) == IF a < b THEN a ELSE b

InitBatch ==
    /\ op \in Operations
    /\ urls \in IF op = "downloadImage"
                THEN [1..1 -> SingleUrls]
                ELSE IF op = "downloadImageZip"
                THEN UNION {[1..n -> MutationUrls] : n \in 1..MaxUrls}
                     \cup {FullBatch}
                ELSE UNION {[1..n -> BatchUrls] : n \in 0..MaxUrls}
    /\ concurrency \in IF op = "downloadWithConcurrency"
                       THEN 0..MaxConcurrency ELSE {0}
    /\ phase = "called"
    /\ spawned = 0
    /\ nextIndex = 0
    /\ results = <<>>
    /\ tpc = <<>>
    /\ tidx = <<>>
    /\ zip = <<>>
    /\ thrown = ""
    /\ imageCount = -1
    /\ verdict = [i \in 1..Len(urls) |-> "none"]
    /\ requests = [i \in 1..Len(urls) |-> 0]
    /\ settled = [i \in 1..Len(urls) |-> "none"]
    /\ log = [i \in 1..Len(urls) |-> NoLog]
    /\ calls = [i \in 1..Len(urls) |-> 0]
    /\ writes = [i \in 1..Len(urls) |-> 0]
    /\ arg = <<>>
    /\ ret = <<>>
    /\ pc = "idle"
    /\ resolved = <<>>

Tasks == 1..Len(tpc)

\* the number of fetches started and not yet finished
InFlight == Cardinality({t \in Tasks : tpc[t] \in {"fetch", "body", "stalled"}})

\* downloadImage(urls[i]) up to its first await: validateImageUrl has made
\* its static checks and either thrown or started the DNS lookup
StartPc(i) == IF UrlTable[urls[i]].static = "lookup" THEN "lookup" ELSE "rejected"

StartVerdict(ver, i) ==
    LET v == UrlTable[urls[i]].static
    IN  [ver EXCEPT ![i] = IF v = "lookup" THEN "pending" ELSE v]

StartSettled(sett, i) ==
    [sett EXCEPT ![i] = IF UrlTable[urls[i]].static = "lookup" THEN @ ELSE "fail"]

\* how many workers / downloads the operation starts
SpawnTarget ==
    IF op = "downloadWithConcurrency" THEN Min(concurrency, Len(urls))
    ELSE Len(urls)

\* the operation is called: new Array(urls.length).fill(null), nextIndex = 0
Begin ==
    /\ phase = "called"
    /\ phase' = "spawning"
    /\ results' = [i \in 1..Len(urls) |-> Null]
    /\ nextIndex' = 0
    /\ UNCHANGED <<ipVars, log, calls, writes, op, urls, concurrency, spawned, tpc, tidx, zip,
                   thrown, imageCount, verdict, requests, settled>>

\* a worker that takes `nextIndex` as its first index without advancing the
\* cursor
SpawnWorkerCursorRead ==
    /\ phase = "spawning"
    /\ op = "downloadWithConcurrency"
    /\ spawned < SpawnTarget
    /\ nextIndex < Len(urls)
    /\ spawned' = spawned + 1
    /\ nextIndex' = nextIndex
    /\ tidx' = Append(tidx, nextIndex + 1)
    /\ tpc' = Append(tpc, StartPc(nextIndex + 1))
    /\ calls' = [calls EXCEPT ![nextIndex + 1] = @ + 1]
    /\ writes' = writes
    /\ verdict' = StartVerdict(verdict, nextIndex + 1)
    /\ settled' = StartSettled(settled, nextIndex + 1)
    /\ UNCHANGED <<ipVars, log, op, urls, concurrency, phase, results, zip,
                   thrown, imageCount, requests>>

\* Array.from({ length: ... }, () => worker()): one more worker is called
\* and runs to its first await; the loop finds an index and claims it
SpawnWorker ==
    /\ phase = "spawning"
    /\ op = "downloadWithConcurrency"
    /\ spawned < SpawnTarget
    /\ nextIndex < Len(urls)
    /\ spawned' = spawned + 1
    /\ nextIndex' = nextIndex + 1
    /\ tidx' = Append(tidx, nextIndex + 1)
    /\ tpc' = Append(tpc, StartPc(nextIndex + 1))
    /\ calls' = [calls EXCEPT ![nextIndex + 1] = @ + 1]
    /\ writes' = writes
    /\ verdict' = StartVerdict(verdict, nextIndex + 1)
    /\ settled' = StartSettled(settled, nextIndex + 1)
    /\ UNCHANGED <<ipVars, log, op, urls, concurrency, phase, results, zip, thrown,
                   imageCount, requests>>

\* imageUrls.map((url, index) => downloadImage(url).catch(...)), and the
\* single call of downloadImage: the next download is started
SpawnDownload ==
    /\ phase = "spawning"
    /\ op \in {"downloadImageZip", "downloadImage"}
    /\ spawned < SpawnTarget
    /\ spawned' = spawned + 1
    /\ tidx' = Append(tidx, spawned + 1)
    /\ tpc' = Append(tpc, StartPc(spawned + 1))
    /\ calls' = [calls EXCEPT ![spawned + 1] = @ + 1]
    /\ writes' = writes
    /\ verdict' = StartVerdict(verdict, spawned + 1)
    /\ settled' = StartSettled(settled, spawned + 1)
    /\ UNCHANGED <<ipVars, log, op, urls, concurrency, phase, nextIndex, results, zip,
                   thrown, imageCount, requests>>

\* await Promise.all(...): the caller suspends, the event loop runs
AwaitAll ==
    /\ phase = "spawning"
    /\ spawned = SpawnTarget
    /\ phase' = "running"
    /\ UNCHANGED <<ipVars, log, calls, writes, op, urls, concurrency, spawned, nextIndex, results,
                   tpc, tidx, zip, thrown, imageCount, verdict, requests,
                   settled>>

\* results.push(<value>): the value goes to the end, in completion order
StoreResultPush(res, index, value) == Append(res, value)

\* results[index] = <value>
StoreResult(res, index, value) == [res EXCEPT ![index] = value]

\* worker() without the catch keeping it alive: a worker whose download
\* failed leaves its loop
ResumeWorkerNoCatch(t, value, ver, sett) ==
    /\ results' = StoreResult(results, tidx[t], value)
    /\ IF value.ok /\ nextIndex < Len(urls)
       THEN /\ nextIndex' = nextIndex + 1
            /\ tidx' = [tidx EXCEPT ![t] = nextIndex + 1]
            /\ tpc' = [tpc EXCEPT ![t] = StartPc(nextIndex + 1)]
            /\ calls' = [calls EXCEPT ![nextIndex + 1] = @ + 1]
            /\ verdict' = StartVerdict(ver, nextIndex + 1)
            /\ settled' = StartSettled(sett, nextIndex + 1)
       ELSE /\ tpc' = [tpc EXCEPT ![t] = "exit"]
            /\ verdict' = ver
            /\ settled' = sett
            /\ UNCHANGED <<nextIndex, tidx, calls>>
    /\ writes' = [writes EXCEPT ![tidx[t]] = @ + 1]
    /\ UNCHANGED <<phase, thrown>>

\* worker(), after `await downloadImage(urls[index])` has returned value or
\* thrown (value = Null, the catch): the slot is written and the loop claims
\* the next index and starts its download, or ends.  ver and sett are verdict
\* and settled as the settling step leaves them.
ResumeWorker(t, value, ver, sett) ==
    /\ results' = StoreResult(results, tidx[t], value)
    /\ IF nextIndex < Len(urls)
       THEN /\ nextIndex' = nextIndex + 1
            /\ tidx' = [tidx EXCEPT ![t] = nextIndex + 1]
            /\ tpc' = [tpc EXCEPT ![t] = StartPc(nextIndex + 1)]
            /\ calls' = [calls EXCEPT ![nextIndex + 1] = @ + 1]
            /\ verdict' = StartVerdict(ver, nextIndex + 1)
            /\ settled' = StartSettled(sett, nextIndex + 1)
       ELSE /\ tpc' = [tpc EXCEPT ![t] = "exit"]
            /\ verdict' = ver
            /\ settled' = sett
            /\ UNCHANGED <<nextIndex, tidx, calls>>
    /\ writes' = [writes EXCEPT ![tidx[t]] = @ + 1]
    /\ UNCHANGED <<phase, thrown>>

\* createImageZip calling downloadImage a second time for a URL whose first
\* download failed
ResumeItemRetry(t, value, ver, sett) ==
    IF ~value.ok /\ calls[tidx[t]] < 2
    THEN /\ tpc' = [tpc EXCEPT ![t] = StartPc(tidx[t])]
         /\ calls' = [calls EXCEPT ![tidx[t]] = @ + 1]
         /\ verdict' = StartVerdict(ver, tidx[t])
         /\ settled' = sett
         /\ UNCHANGED <<results, writes, nextIndex, tidx, phase, thrown>>
    ELSE /\ results' = StoreResult(results, tidx[t], value)
         /\ tpc' = [tpc EXCEPT ![t] = "exit"]
         /\ verdict' = ver
         /\ settled' = sett
         /\ writes' = [writes EXCEPT ![tidx[t]] = @ + 1]
         /\ UNCHANGED <<nextIndex, tidx, phase, thrown, calls>>

\* createImageZip without the .catch on each download: the first rejection
\* rejects Promise.all and createImageZip throws it
ResumeItemNoCatch(t, value, ver, sett) ==
    /\ results' = StoreResult(results, tidx[t], value)
    /\ tpc' = [tpc EXCEPT ![t] = "exit"]
    /\ verdict' = ver
    /\ settled' = sett
    /\ phase' = IF value.ok THEN phase ELSE "zipFailed"
    /\ thrown' = IF value.ok THEN thrown ELSE "DownloadFailed"
    /\ writes' = [writes EXCEPT ![tidx[t]] = @ + 1]
    /\ UNCHANGED <<nextIndex, tidx, calls>>

\* createImageZip: downloadImage(url).catch(() => null) settles; Promise.all
\* keeps the value at the position of its promise
ResumeItem(t, value, ver, sett) ==
    /\ results' = StoreResult(results, tidx[t], value)
    /\ tpc' = [tpc EXCEPT ![t] = "exit"]
    /\ verdict' = ver
    /\ settled' = sett
    /\ writes' = [writes EXCEPT ![tidx[t]] = @ + 1]
    /\ UNCHANGED <<nextIndex, tidx, phase, thrown, calls>>

\* a direct call of downloadImage returns its value or throws
ResumeSingle(t, value, ver, sett) ==
    /\ IF value.ok
       THEN /\ results' = <<value>>
            /\ phase' = "returned"
            /\ thrown' = thrown
       ELSE /\ results' = results
            /\ phase' = "thrown"
            /\ thrown' = "DownloadFailed"
    /\ tpc' = [tpc EXCEPT ![t] = "exit"]
    /\ verdict' = ver
    /\ settled' = sett
    /\ UNCHANGED <<nextIndex, tidx, calls, writes>>

\* the code that runs, in the same turn of the event loop, once the
\* downloadImage call of task t has settled
Resume(t, value, ver, sett) ==
    IF op = "downloadWithConcurrency" THEN ResumeWorker(t, value, ver, sett)
    ELSE IF op = "downloadImageZip" THEN ResumeItem(t, value, ver, sett)
    ELSE ResumeSingle(t, value, ver, sett)

\* validateImageUrl(url) without the await: its outcome is not waited for
validationNotAwaited(v) == TRUE

\* `await validateImageUrl(url)`: only a validation that did not throw lets
\* downloadImage go on to fetch
validationPassed(v) == v = "ok"

\* a static check of validateImageUrl threw: the rejection reaches the caller
StaticReject(t) ==
    /\ phase = "running"
    /\ tpc[t] = "rejected"
    /\ Resume(t, Null, verdict, settled)
    /\ UNCHANGED <<ipVars, log, op, urls, concurrency, spawned, zip, imageCount,
                   requests>>

\* the DNS lookup of task t settles: validateImageUrl finishes, and on
\* acceptance downloadImage goes on to call fetch(url, { redirect: "error" })
DnsSettle(t) ==
    /\ phase = "running"
    /\ tpc[t] = "lookup"
    /\ \E answer \in BatchDns :
        LET v == BatchVerdict[answer]
            ver == [verdict EXCEPT ![tidx[t]] = v]
        IN  /\ log' = [log EXCEPT ![tidx[t]].checked =
                                    IF answer.failed THEN <<>> ELSE <<answer>>]
            /\ IF validationPassed(v)
               THEN /\ requests' = [requests EXCEPT ![tidx[t]] = @ + 1]
                    /\ tpc' = [tpc EXCEPT ![t] = "fetch"]
                    /\ verdict' = ver
                    /\ UNCHANGED <<settled, results, nextIndex, tidx, phase,
                                   thrown, calls, writes>>
               ELSE /\ requests' = requests
                    /\ Resume(t, Null, ver, [settled EXCEPT ![tidx[t]] = "fail"])
    /\ UNCHANGED <<ipVars, op, urls, concurrency, spawned, zip, imageCount>>

\* fetch(url, { redirect: <this> }) with the default option: the target of a
\* redirect answer is requested
redirectFollow == "follow"

\* fetch(url, { redirect: "error" }): a redirect answer rejects the fetch
redirect == "error"

\* the checks on the response without the one on content-type
ResponseErrorAnyType(r) ==
    IF r = Redirect \/ r.rejected THEN "FetchFailed"
    ELSE IF ~r.ok THEN "HttpError"
    ELSE ""

\* what downloadImage throws on what fetch settled with, "" when it goes on
\* to read the body: the rejection of fetch, `HTTP <status>` when
\* !response.ok, "Response is not an image" when content-type is missing or
\* does not start with "image/"
ResponseError(r) ==
    IF r = Redirect \/ r.rejected THEN "FetchFailed"
    ELSE IF ~r.ok THEN "HttpError"
    ELSE IF Len(r.contentType) = 0 \/ ~StartsWith(r.contentType, T_image)
    THEN "NotAnImage"
    ELSE ""

\* the body accepted whatever its length
BodyErrorNoMinimum(size) == IF size < 0 THEN "BodyFailed" ELSE ""

\* what downloadImage throws on the body it was given, "" when it returns it:
\* the rejection of arrayBuffer(), "Downloaded file is too small" when
\* buffer.length < 1024
BodyError(size) ==
    IF size < 0 THEN "BodyFailed"
    ELSE IF size < MinImageBytes THEN "TooSmall"
    ELSE ""

\* fetch settles, having resolved the hostname and opened its connection
\* unless it met a network error: on a rejection (a redirect answer
\* included), !response.ok
\* or a content-type that is not an image downloadImage throws; otherwise
\* response.arrayBuffer() is awaited
FetchSettle(t) ==
    /\ phase = "running"
    /\ tpc[t] = "fetch"
    /\ \E r \in ResponsesFor(op), a \in ConnectsFor(op, log[tidx[t]].checked) :
        LET met == IF r = FetchRejected THEN log
                   ELSE [log EXCEPT ![tidx[t]].connected = <<a>>]
        IN  IF r = Redirect /\ redirect = "follow"
            THEN /\ log' = [met EXCEPT ![tidx[t]].followed = TRUE]
                 /\ UNCHANGED <<tpc, verdict, settled, results, nextIndex, tidx,
                                phase, thrown, calls, writes>>
            ELSE IF ResponseError(r) = ""
            THEN /\ log' = [met EXCEPT ![tidx[t]].response = <<r>>,
                                       ![tidx[t]].bodyRead = TRUE]
                 /\ tpc' = [tpc EXCEPT ![t] = "body"]
                 /\ UNCHANGED <<verdict, settled, results, nextIndex, tidx,
                                phase, thrown, calls, writes>>
            ELSE /\ log' = [met EXCEPT ![tidx[t]].response = <<r>>,
                                       ![tidx[t]].error = ResponseError(r)]
                 /\ Resume(t, Null, verdict, [settled EXCEPT ![tidx[t]] = "fail"])
    /\ UNCHANGED <<ipVars, op, urls, concurrency, spawned, zip, imageCount,
                   requests>>

\* the body has arrived (or failed to): the size check, the file name, and
\* downloadImage returns { filename, data } or throws
BodySettle(t) ==
    /\ phase = "running"
    /\ tpc[t] = "body"
    /\ \E size \in SizesFor(op), now \in TimestampsFor(op) :
        /\ log' = [log EXCEPT ![tidx[t]].size = <<size>>,
                              ![tidx[t]].error = BodyError(size)]
        /\ IF BodyError(size) # ""
           THEN Resume(t, Null, verdict, [settled EXCEPT ![tidx[t]] = "fail"])
           ELSE Resume(t, Success(finalFilename(urls[tidx[t]], now), size),
                       verdict, [settled EXCEPT ![tidx[t]] = "ok"])
    /\ UNCHANGED <<ipVars, op, urls, concurrency, spawned, zip, imageCount,
                   requests>>

\* the server stops answering: `await fetch(...)` or `await
\* response.arrayBuffer()` is left pending, and nothing in downloadImage (no
\* signal, no timer) settles it.  Followed for a single call of downloadImage.
Stall(t) ==
    /\ phase = "running"
    /\ ~IsBatch(op)
    /\ tpc[t] \in {"fetch", "body"}
    /\ tpc' = [tpc EXCEPT ![t] = "stalled"]
    /\ UNCHANGED <<ipVars, log, calls, writes, op, urls, concurrency, phase, spawned,
                   nextIndex, results, tidx, zip, thrown, imageCount, verdict,
                   requests, settled>>

AllExited == \A t \in Tasks : tpc[t] = "exit"

\* downloadWithConcurrency: Promise.all resolves, return results
ReturnResults ==
    /\ phase = "running"
    /\ op = "downloadWithConcurrency"
    /\ AllExited
    /\ phase' = "returned"
    /\ UNCHANGED <<ipVars, log, calls, writes, op, urls, concurrency, spawned, nextIndex, results,
                   tpc, tidx, zip, thrown, imageCount, verdict, requests,
                   settled>>

(***************************************************************************)
(* createImageZip, after the downloads.                                    *)
(***************************************************************************)
\* downloadResults.filter((result) => result !== null)
validImages(downloadResults) == SelectSeq(downloadResults, LAMBDA r : r.ok)

\* the file name of the image as the name of its entry, without a number
uniqueFilenamePlain(index, image) == image.filename

\* `${index + 1}_${image.filename}`, index the 0-based position in validImages
uniqueFilename(index, image) == ToDec(index + 1) \o <<"_">> \o image.filename

\* zip.file(name, data): a file of that name is replaced, else it is added
ZipFile(z, name, size) ==
    IF \E k \in 1..Len(z) : z[k].name = name
    THEN [k \in 1..Len(z) |-> IF z[k].name = name
                              THEN [name |-> name, size |-> size] ELSE z[k]]
    ELSE Append(z, [name |-> name, size |-> size])

\* validImages.forEach((image, index) => zip.file(...)), the first n images
RECURSIVE AddImages(_, _)
AddImages(images, n) ==
    IF n = 0 THEN <<>>
    ELSE ZipFile(AddImages(images, n - 1),
                 uniqueFilename(n - 1, images[n]), images[n].size)

\* the test made on the results instead of on the valid images
ZipErrorOnResults(downloadResults) ==
    IF Len(downloadResults) = 0 THEN "AllDownloadsFailed" ELSE ""

\* the error createImageZip throws for these results, "" when it returns
ZipError(downloadResults) ==
    IF Len(validImages(downloadResults)) = 0 THEN "AllDownloadsFailed"
    ELSE IF Len(AddImages(validImages(downloadResults),
                          Len(validImages(downloadResults)))) = 0
    THEN "EmptyArchive"
    ELSE ""

\* createImageZip from `await Promise.all` to its return or throw
CreateZip ==
    /\ phase = "running"
    /\ op = "downloadImageZip"
    /\ AllExited
    /\ IF ZipError(results) = ""
       THEN /\ zip' = AddImages(validImages(results), Len(validImages(results)))
            /\ phase' = "zipped"
            /\ thrown' = thrown
       ELSE /\ zip' = zip
            /\ phase' = "zipFailed"
            /\ thrown' = ZipError(results)
    /\ UNCHANGED <<ipVars, log, calls, writes, op, urls, concurrency, spawned, nextIndex, results,
                   tpc, tidx, imageCount, verdict, requests, settled>>

\* the imageCount of the downloadImageZip response
ResponseImageCount == Len(urls)

\* downloadImageZip returns { success, filename, data, size, imageCount }
MutationReturn ==
    /\ phase = "zipped"
    /\ imageCount' = ResponseImageCount
    /\ phase' = "returned"
    /\ UNCHANGED <<ipVars, log, calls, writes, op, urls, concurrency, spawned, nextIndex, results,
                   tpc, tidx, zip, thrown, verdict, requests, settled>>

\* downloadImageZip catches the error and throws "Failed to create zip archive"
MutationThrow ==
    /\ phase = "zipFailed"
    /\ phase' = "thrown"
    /\ UNCHANGED <<ipVars, log, calls, writes, op, urls, concurrency, spawned, nextIndex, results,
                   tpc, tidx, zip, thrown, imageCount, verdict, requests,
                   settled>>

Next ==
    \/ Begin
    \/ SpawnWorker
    \/ SpawnDownload
    \/ AwaitAll
    \/ \E t \in Tasks : StaticReject(t)
    \/ \E t \in Tasks : DnsSettle(t)
    \/ \E t \in Tasks : FetchSettle(t)
    \/ \E t \in Tasks : BodySettle(t)
    \/ \E t \in Tasks : Stall(t)
    \/ ReturnResults
    \/ CreateZip
    \/ MutationReturn
    \/ MutationThrow

Spec == InitBatch /\ [][Next]_vars

(***************************************************************************)
(* Properties of a request.                                                *)
(***************************************************************************)
\* downloadWithConcurrency has returned
PoolReturned == op = "downloadWithConcurrency" /\ phase = "returned"

\* createImageZip has its download results
ZipDownloaded ==
    /\ op = "downloadImageZip"
    /\ phase \in {"zipped", "zipFailed", "returned", "thrown"}

\* slot i holds what the download of urls[i] produced
OwnOutcome(i) ==
    IF results[i].ok
    THEN /\ settled[i] = "ok"
         /\ \E now \in Timestamps : results[i].filename = finalFilename(urls[i], now)
    ELSE /\ results[i] = Null
         /\ settled[i] # "ok"

\* C1: the result list is as long as urls, and entry i is the outcome of the
\* download of urls[i], in whatever order the downloads completed.
C1_ResultsAligned ==
    (PoolReturned \/ ZipDownloaded) =>
        /\ Len(results) = Len(urls)
        /\ \A i \in 1..Len(urls) : OwnOutcome(i)
        /\ (op = "downloadWithConcurrency" /\ concurrency >= 1) =>
               \A i \in 1..Len(urls) : settled[i] \in {"ok", "fail"}

\* two workers, three URLs: the second worker finished index 2 and went on to
\* index 3 while the first was still on index 1, and all three succeeded
C1_Witness ==
    /\ PoolReturned
    /\ concurrency = 2
    /\ urls = <<U_good, U_noext, U_good>>
    /\ tidx = <<1, 3>>
    /\ \A i \in 1..3 : results[i].ok

\* the number of simultaneous fetches the operation is to stay within
ConcurrencyLimit ==
    IF op = "downloadWithConcurrency" THEN concurrency
    ELSE IF op = "downloadImageZip" THEN DefaultConcurrency
    ELSE 1

\* C2: at no point of a batch download, createImageZip included, are more
\* fetches started and not yet finished than the concurrency setting.
C2_InFlightBounded == InFlight <= ConcurrencyLimit

\* a pool of two workers has both of its fetches in flight, a third URL waiting
C2_Witness ==
    /\ op = "downloadWithConcurrency"
    /\ concurrency = 2
    /\ Len(urls) = 3
    /\ InFlight = 2
    /\ nextIndex = 2

\* C3: a failure of urls[i] puts null at index i only; every other index gets
\* the outcome of its own download, none is cancelled, and the batch runs to
\* its end.
C3_FailureIsolated ==
    ((PoolReturned /\ concurrency >= 1) \/ ZipDownloaded) =>
        \A i \in 1..Len(urls) :
            /\ settled[i] \in {"ok", "fail"}
            /\ settled[i] = "fail" => results[i] = Null
            /\ settled[i] = "ok" =>
                   /\ results[i].ok
                   /\ requests[i] = 1
                   /\ verdict[i] = "ok"

\* three URLs of which the second was fetched and failed: its slot is null,
\* its neighbours succeeded
C3_Witness ==
    /\ PoolReturned
    /\ Len(urls) = 3
    /\ settled = <<"ok", "fail", "ok">>
    /\ requests[2] = 1
    /\ results[1].ok /\ results[2] = Null /\ results[3].ok

\* the inputs whose download succeeded
Succeeded == {i \in 1..Len(urls) : settled[i] = "ok"}

\* the position of input i among the successful inputs, in input order
Rank(i) == Cardinality({k \in Succeeded : k <= i})

\* C4: when M >= 1 of the N downloads succeed, the archive has exactly M
\* entries, the j-th successful input is stored as "j_<its filename>", and the
\* reported imageCount is M.
C4_ArchiveOfSuccesses ==
    (op = "downloadImageZip" /\ phase = "returned") =>
        /\ Len(zip) = Cardinality(Succeeded)
        /\ \A i \in Succeeded :
               zip[Rank(i)].name = ToDec(Rank(i)) \o <<"_">> \o results[i].filename
        /\ imageCount = Cardinality(Succeeded)

\* the entries and their names alone, without the reported count
C4_EntriesOnly ==
    (op = "downloadImageZip" /\ phase = "returned") =>
        /\ Len(zip) = Cardinality(Succeeded)
        /\ \A i \in Succeeded :
               zip[Rank(i)].name = ToDec(Rank(i)) \o <<"_">> \o results[i].filename

\* three URLs of which the second failed: a two-entry archive was returned
C4_Witness ==
    /\ op = "downloadImageZip"
    /\ phase = "returned"
    /\ settled = <<"ok", "fail", "ok">>
    /\ Len(zip) = 2

\* C5: when every download of the batch fails, createImageZip throws
\* AllDownloadsFailed, and there are no archive and no imageCount.
C5_AllFailedThrows ==
    (ZipDownloaded /\ Succeeded = {}) =>
        /\ phase \in {"zipFailed", "thrown"}
        /\ thrown = "AllDownloadsFailed"
        /\ zip = <<>>
        /\ imageCount = -1

\* two URLs, both fetched, both failed, and the request has thrown
C5_Witness ==
    /\ op = "downloadImageZip"
    /\ phase = "thrown"
    /\ Len(urls) = 2
    /\ settled = <<"fail", "fail">>
    /\ requests = <<1, 1>>
    /\ thrown = "AllDownloadsFailed"

MAX_IMAGE_SIZE == 5242880

Positions == 1..Len(log)
BodyDelivered(i) == log[i].size # <<>> /\ log[i].size[1] >= 0
Oversized(i) == BodyDelivered(i) /\ log[i].size[1] > MAX_IMAGE_SIZE

\* C13: a response whose body delivers more than MAX_IMAGE_SIZE bytes,
\* whatever its Content-Length header says, makes downloadImage fail with
\* SizeExceeded; it is never returned as Success.
C13_OversizeRejected ==
    \A i \in Positions :
        Oversized(i) => (settled[i] = "fail" /\ log[i].error = "SizeExceeded")

\* a response without Content-Length delivered one byte more than the
\* ceiling, and downloadImage returned it
C13_Witness ==
    /\ op = "downloadImage"
    /\ phase = "returned"
    /\ log[1].response[1].contentLength = -1
    /\ log[1].size = <<MAX_IMAGE_SIZE + 1>>
    /\ results[1].ok
    /\ results[1].size = MAX_IMAGE_SIZE + 1

\* the response at position i passed the status and content-type checks
Passed(i) == log[i].response # <<>> /\ ResponseError(log[i].response[1]) = ""

\* C14: a response whose Content-Length header exceeds MAX_IMAGE_SIZE makes
\* downloadImage fail with SizeExceeded before any of the body is read; a
\* response without the header is not rejected on that ground.
C14_AdvertisedOversizeRejected ==
    \A i \in Positions :
        /\ (Passed(i) /\ log[i].response[1].contentLength > MAX_IMAGE_SIZE)
            => /\ ~log[i].bodyRead
               /\ settled[i] = "fail"
               /\ log[i].error = "SizeExceeded"
        /\ (Passed(i) /\ log[i].response[1].contentLength = -1)
            => log[i].error # "SizeExceeded"

\* a response advertising more than the ceiling had its body read and was
\* returned
C14_Witness ==
    /\ op = "downloadImage"
    /\ phase = "returned"
    /\ log[1].response[1].contentLength > MAX_IMAGE_SIZE
    /\ log[1].bodyRead
    /\ results[1].ok

\* C15: every Success that downloadImage returns has a size strictly greater
\* than the minimum (1024) and at most MAX_IMAGE_SIZE.
C15_SuccessSizeInRange ==
    \A i \in 1..Len(results) :
        results[i].ok =>
            /\ results[i].size > MinImageBytes
            /\ results[i].size <= MAX_IMAGE_SIZE

\* a payload of exactly the ceiling was returned as a Success
C15_Witness ==
    /\ op = "downloadImage"
    /\ phase = "returned"
    /\ results[1].ok
    /\ results[1].size = MAX_IMAGE_SIZE

Undersized(i) == BodyDelivered(i) /\ log[i].size[1] < MinImageBytes

\* C16: a 2xx image response whose complete body is shorter than 1024 bytes
\* makes downloadImage fail with TooSmall: it is not returned as a Success,
\* and no entry of the archive comes from it.
C16_TooSmallRejected ==
    /\ \A i \in Positions :
        Undersized(i) =>
            /\ settled[i] = "fail"
            /\ log[i].error = "TooSmall"
            /\ ~results[i].ok
    /\ Len(zip) <= Cardinality({i \in Positions : ~Undersized(i)})
    /\ \A k \in 1..Len(zip) : zip[k].size >= MinImageBytes

\* an archive was built from a batch of two in which one body was too small
C16_Witness ==
    /\ op = "downloadImageZip"
    /\ phase = "returned"
    /\ Len(urls) = 2
    /\ log[1].size = <<512>>
    /\ log[1].error = "TooSmall"
    /\ settled = <<"fail", "ok">>
    /\ Len(zip) = 1

\* fetch settled with a response at position i (not with a rejection)
Responded(i) ==
    /\ log[i].response # <<>>
    /\ log[i].response[1] \notin {FetchRejected, Redirect}

IsImageType(c) == Len(c) >= Len(T_image) /\ SubSeq(c, 1, Len(T_image)) = T_image

\* C17: downloadImage reads the body of a response only if its status is 2xx
\* and its content-type begins with "image/"; a non-2xx response fails with
\* HttpError, a 2xx response with a missing or other content-type fails with
\* NotAnImage, both without the body being read.
C17_BodyOnlyOfImages ==
    \A i \in Positions :
        Responded(i) =>
            LET r == log[i].response[1]
            IN  /\ log[i].bodyRead <=> (r.ok /\ IsImageType(r.contentType))
                /\ ~r.ok => (settled[i] = "fail" /\ log[i].error = "HttpError")
                /\ (r.ok /\ ~IsImageType(r.contentType))
                    => (settled[i] = "fail" /\ log[i].error = "NotAnImage")

\* a 200 response without content-type made the call throw, its body unread
C17_Witness ==
    /\ op = "downloadImage"
    /\ phase = "thrown"
    /\ Responded(1)
    /\ log[1].response[1].ok
    /\ log[1].response[1].contentType = <<>>
    /\ log[1].error = "NotAnImage"
    /\ ~log[1].bodyRead

\* C18: the downloader never follows a redirect: a redirect answer to a fetch
\* makes that item fail, and no request is issued to the redirect's target.
C18_RedirectNotFollowed ==
    \A i \in Positions :
        /\ ~log[i].followed
        /\ log[i].response = <<Redirect>>
            => /\ settled[i] = "fail"
               /\ log[i].error = "FetchFailed"
               /\ ~log[i].bodyRead
               /\ requests[i] = 1

\* the server answered the one request with a redirect and the call threw
C18_Witness ==
    /\ op = "downloadImage"
    /\ phase = "thrown"
    /\ log[1].response = <<Redirect>>
    /\ ~log[1].followed
    /\ requests = <<1>>
    /\ thrown = "DownloadFailed"

\* a step in which the download of task t moves on
TaskStep(t) == Next /\ tpc'[t] # tpc[t]

\* C19: every fetch carries its own deadline: a fetch whose server never
\* responds, or whose body has not ended when the deadline expires, fails
\* with Timeout.  As a property of finite runs: a download left pending by
\* its server always has a step left to take, the expiry of its deadline.
C19_DeadlineFires ==
    \A t \in Tasks : tpc[t] = "stalled" => ENABLED TaskStep(t)

\* a download whose server stopped answering: the call has neither returned
\* nor thrown, and no step is left
C19_Witness ==
    /\ op = "downloadImage"
    /\ phase = "running"
    /\ tpc = <<"stalled">>
    /\ settled = <<"none">>
    /\ requests = <<1>>
    /\ ~ENABLED Next

SomeSucceeded == \E i \in Positions : settled[i] = "ok"
Finished == phase \in {"zipped", "zipFailed", "returned", "thrown"}

\* C20: no error of a single item leaves the scheduler: downloadWithConcurrency
\* never throws, whatever fails; createImageZip returns an archive whenever
\* at least one download succeeded, and the only error it throws is
\* AllDownloadsFailed.
C20_OnlyAllFailedThrown ==
    /\ op = "downloadWithConcurrency" => (thrown = "" /\ phase # "thrown")
    /\ op = "downloadImageZip" =>
        /\ thrown \in {"", "AllDownloadsFailed"}
        /\ (Finished /\ SomeSucceeded)
            => (thrown = "" /\ phase \in {"zipped", "returned"} /\ Len(zip) >= 1)
        /\ (Finished /\ ~SomeSucceeded) => thrown = "AllDownloadsFailed"

\* an archive was returned for a batch in which one URL was refused by the
\* validator, one download failed and one succeeded
C20_Witness ==
    /\ op = "downloadImageZip"
    /\ phase = "returned"
    /\ thrown = ""
    /\ Len(zip) = 1
    /\ \E i, j, k \in Positions :
        /\ verdict[i] \notin {"ok", "pending", "none"} /\ settled[i] = "fail"
        /\ verdict[j] = "ok" /\ log[j].error = "TooSmall"
        /\ settled[k] = "ok"

(***************************************************************************)
(* The response of downloadImageZip and the names in its archive.          *)
(***************************************************************************)
\* C21: the imageCount that downloadImageZip reports equals the number of
\* entries placed in the archive it returns, not the number of URLs requested.
C21_CountIsEntries ==
    (op = "downloadImageZip" /\ phase = "returned") => imageCount = Len(zip)

\* a response for two URLs of which one download failed: one entry reported
\* as two images
C21_Witness ==
    /\ op = "downloadImageZip"
    /\ phase = "returned"
    /\ settled = <<"ok", "fail">>
    /\ Len(zip) = 1
    /\ imageCount = 2

\* C22: within one archive no two entries have the same name, also when two
\* or more successful inputs have the same file name: every success has an
\* entry of its own.
C22_EntryNamesDistinct ==
    (op = "downloadImageZip" /\ phase \in {"zipped", "returned"}) =>
        /\ \A k, l \in 1..Len(zip) : k # l => zip[k].name # zip[l].name
        /\ Len(zip) = Cardinality(Succeeded)

\* an archive of three entries made from three downloads of the same URL
C22_Witness ==
    /\ op = "downloadImageZip"
    /\ phase = "returned"
    /\ Len(urls) = 3
    /\ urls[1] = urls[2] /\ urls[2] = urls[3]
    /\ \A i \in 1..3 : results[i].ok /\ results[i].filename = results[1].filename
    /\ Len(zip) = 3

(***************************************************************************)
(* The order of the checks of validateImageUrl.                            *)
(***************************************************************************)
\* the static checks a URL fails, each taken on its own: 1 parse, 2 scheme,
\* 3 credentials, 4 domain allowlist
FailedChecks(url) ==
    IF ~ParseURL(url).ok THEN {1}
    ELSE {c \in 2..4 :
            \/ c = 2 /\ ParseURL(url).protocol # T_https \o <<":">>
            \/ c = 3 /\ (ParseURL(url).username # <<>> \/ ParseURL(url).password # <<>>)
            \/ c = 4 /\ ~InAllowlist(toLowerCase(ParseURL(url).hostname))}

CheckError ==
    <<"InvalidUrl", "SchemeNotAllowed", "CredentialsInUrl", "DomainNotAllowed">>

\* C23: validateImageUrl checks in the order parse, scheme, credentials,
\* domain allowlist, DNS resolution, IP range and stops at the first check
\* that fails: the error is that of the earliest failing check, the lookup is
\* made only when the four static checks have passed, and the address is
\* examined only when the lookup has answered.
C23_FirstFailureReported ==
    pc # "start" =>
        IF FailedChecks(arg) # {}
        THEN /\ pc = "done"
             /\ resolved = <<>>
             /\ ret = <<CheckError[CHOOSE c \in FailedChecks(arg) :
                                     \A d \in FailedChecks(arg) : c <= d]>>
        ELSE \/ pc = "lookup" /\ ret = <<>>
             \/ /\ pc = "done"
                /\ resolved # <<>>
                /\ IF resolved[1].failed
                   THEN ret = <<"DnsResolutionFailed">>
                   ELSE ret \in {<<"PrivateIpRejected">>, <<"ok">>}

\* an http URL with credentials on a host outside the allowlist was refused
\* for its scheme, and no lookup was made
C23_Witness ==
    /\ arg = UrlText(T_http, U_userpass, H_evil, P_jpg)
    /\ FailedChecks(arg) = {2, 3, 4}
    /\ pc = "done"
    /\ ret = <<"SchemeNotAllowed">>
    /\ resolved = <<>>

(***************************************************************************)
(* The cursor and the slots of downloadWithConcurrency.                    *)
(***************************************************************************)
\* the positions some worker is at work on
Claimed == {tidx[t] : t \in {u \in Tasks : tpc[u] # "exit"}}

\* at every moment: the indexes below the cursor have been claimed once each
\* and no other; the workers at work hold different indexes, all below n; no
\* slot has been written twice, and when a pool of at least one worker
\* returns every slot was written once
CursorInv ==
    op = "downloadWithConcurrency" =>
        /\ nextIndex <= Len(urls)
        /\ \A i \in Positions : calls[i] = IF i <= nextIndex THEN 1 ELSE 0
        /\ \A t \in Tasks : tidx[t] \in 1..nextIndex
        /\ \A t, u \in Tasks :
             (t # u /\ tpc[t] # "exit" /\ tpc[u] # "exit") => tidx[t] # tidx[u]
        /\ \A i \in Positions :
             writes[i] = IF i <= nextIndex /\ i \notin Claimed THEN 1 ELSE 0
        /\ (phase = "returned" /\ concurrency >= 1) =>
             (nextIndex = Len(urls) /\ \A i \in Positions : writes[i] = 1)

\* C24: in every interleaving of the pool's workers each index 0..n-1 is
\* claimed by exactly one worker: the cursor only advances, no index is
\* claimed twice or skipped, no index >= n is processed, and the result slot
\* of each index is written exactly once.
C24_EachIndexOnce == [](CursorInv) /\ [][nextIndex' >= nextIndex]_vars

\* two workers have shared three URLs: the worker that finished first took
\* the third, and every slot was written once
C24_Witness ==
    /\ op = "downloadWithConcurrency"
    /\ phase = "returned"
    /\ concurrency = 2
    /\ Len(urls) = 3
    /\ nextIndex = 3
    /\ tidx = <<1, 3>>
    /\ calls = <<1, 1, 1>>
    /\ writes = <<1, 1, 1>>

(***************************************************************************)
(* One attempt per item.                                                   *)
(***************************************************************************)
\* position i has failed and nothing more is done for it
FailedForGood(i) ==
    settled[i] = "fail" =>
        /\ settled'[i] = "fail"
        /\ calls'[i] = calls[i]
        /\ requests'[i] = requests[i]

\* C25: within one invocation at most one validation (one call of
\* downloadImage, which validates once) and at most one network request are
\* issued for each input item, whether it succeeds or fails; a failed item is
\* never tried again.
C25_OneAttemptPerItem ==
    /\ [](\A i \in Positions :
            calls[i] <= 1 /\ requests[i] <= calls[i])
    /\ [][\A i \in Positions : FailedForGood(i)]_vars

\* a finished archive request in which one URL failed after its one request
\* and another failed in validation without any
C25_Witness ==
    /\ op = "downloadImageZip"
    /\ phase = "thrown"
    /\ Len(urls) = 2
    /\ settled = <<"fail", "fail">>
    /\ calls = <<1, 1>>
    /\ requests = <<1, 0>>
    /\ log[1].error = "TooSmall"

(***************************************************************************)
(* Memory held by a batch.                                                 *)
(***************************************************************************)
\* the bytes of the images in the first n result slots
RECURSIVE StoredBytes(_)
StoredBytes(n) ==
    IF n = 0 THEN 0
    ELSE StoredBytes(n - 1) + (IF results[n].ok THEN results[n].size ELSE 0)

\* downloads of the batch are still under way
FetchPhase == IsBatch(op) /\ phase = "running" /\ ~AllExited

\* C26: during the fetch phase of a batch the image bytes held in memory
\* (bodies being read and results already stored) are at most concurrency x
\* MAX_IMAGE_SIZE, whatever the batch size; while the archive is assembled
\* they are at most successCount x MAX_IMAGE_SIZE more.  The bytes counted
\* here are those of the stored results alone.
C26_MemoryBounded ==
    /\ FetchPhase =>
        StoredBytes(Len(results)) <= ConcurrencyLimit * MAX_IMAGE_SIZE
    /\ (op = "downloadImageZip" /\ phase \in {"zipped", "returned"}) =>
        StoredBytes(Len(results))
            <= (ConcurrencyLimit + Cardinality(Succeeded)) * MAX_IMAGE_SIZE

\* a pool of one worker holds two stored images of 5 MB while it downloads
\* the third URL
C26_Witness ==
    /\ op = "downloadWithConcurrency"
    /\ concurrency = 1
    /\ phase = "running"
    /\ Len(urls) = 3
    /\ tidx = <<3>>
    /\ tpc = <<"body">>
    /\ StoredBytes(2) = 2 * MAX_IMAGE_SIZE

(***************************************************************************)
(* The file name of a downloaded image.                                    *)
(***************************************************************************)
\* name ends in .jpg, .jpeg, .png, .gif or .webp, in any case of letters
EndsInImageExtension(name) ==
    \E n \in 4..5 :
        /\ Len(name) >= n
        /\ toLowerCase(SubSeq(name, Len(name) - n + 1, Len(name)))
             \in {<<".","j","p","g">>, <<".","p","n","g">>, <<".","g","i","f">>,
                  <<".","j","p","e","g">>, <<".","w","e","b","p">>}

\* the text after the last "/" of the URL's path
PathTail(url) ==
    LET path == ParseURL(url).pathname
    IN  SubSeq(path, LastIndexOf(path, "/") + 1, Len(path))

\* C27: the file name of every Success ends in a recognized image extension
\* (jpg, jpeg, png, gif, webp, in any case): it is the last path segment of
\* the URL, with ".jpg" appended when that has no recognized extension, and
\* a ".jpg" name made from the time when the path has no last segment.
C27_FilenameHasExtension ==
    \A i \in 1..Len(results) :
        results[i].ok =>
            LET f == results[i].filename
                tail == PathTail(urls[i])
            IN  /\ EndsInImageExtension(f)
                /\ IF tail = <<>>
                   THEN \E now \in Timestamps :
                            f = <<"i","m","a","g","e","_">> \o ToDec(now)
                                    \o <<".","j","p","g">>
                   ELSE IF EndsInImageExtension(tail) THEN f = tail
                   ELSE f = tail \o <<".","j","p","g">>

\* a batch returned three names: one taken as it is and two with .jpg added
C27_Witness ==
    /\ op = "downloadWithConcurrency"
    /\ phase = "returned"
    /\ urls = <<U_noext, U_good, U_noext>>
    /\ \A i \in 1..3 : results[i].ok
    /\ results[1].filename = <<"b", ".", "j", "p", "g">>
    /\ results[2].filename = <<"a", ".", "j", "p", "g">>

(***************************************************************************)
(* The result of a batch as a function of its input and of what each URL   *)
(* met.                                                                    *)
(***************************************************************************)
\* what the download of urls[i] came to, from what its validation and its
\* fetch met alone: a Success, or null
ItemOutcome(i) ==
    IF verdict[i] = "ok" /\ BodyDelivered(i) /\ ~Undersized(i)
    THEN [ok |-> TRUE, filename |-> finalFilename(urls[i], 0),
          size |-> log[i].size[1]]
    ELSE [ok |-> FALSE]

\* the position of the k-th URL, in input order, whose outcome is a Success
NthSuccess(k) ==
    CHOOSE i \in Positions :
        /\ ItemOutcome(i).ok
        /\ Cardinality({j \in 1..i : ItemOutcome(j).ok}) = k

\* C28: the result of a batch does not depend on scheduling: the result
\* list, the sequence of archive entry names and the success count are
\* determined by the input list and the individual outcome of each URL, so
\* two executions that agree on these agree on the result, whatever their
\* completion orders and interleavings.
C28_ResultDetermined ==
    (PoolReturned \/ (op = "downloadImageZip" /\ phase \in {"zipped", "returned"})) =>
        /\ results = [i \in 1..Len(urls) |-> ItemOutcome(i)]
        /\ op = "downloadImageZip" =>
            /\ Len(zip) = Cardinality({i \in Positions : ItemOutcome(i).ok})
            /\ \A k \in 1..Len(zip) :
                 zip[k].name = ToDec(k) \o <<"_">> \o ItemOutcome(NthSuccess(k)).filename

\* a pool of two in which the worker of the first URL finished before the
\* worker of the second and took the third, the second URL having failed
C28_Witness ==
    /\ PoolReturned
    /\ concurrency = 2
    /\ tidx = <<3, 2>>
    /\ urls = <<U_good, U_noext, U_good>>
    /\ settled = <<"ok", "fail", "ok">>
    /\ log[2].error = "TooSmall"

(***************************************************************************)
(* Termination of downloadWithConcurrency.  Every download is taken to     *)
(* settle, and the event loop to run whatever is ready: weak fairness on   *)
(* the steps of the pool.                                                  *)
(***************************************************************************)
InitPool == InitBatch /\ op = "downloadWithConcurrency"

NextPool ==
    \/ Begin
    \/ SpawnWorker
    \/ AwaitAll
    \/ \E t \in Tasks : StaticReject(t)
    \/ \E t \in Tasks : DnsSettle(t)
    \/ \E t \in Tasks : FetchSettle(t)
    \/ \E t \in Tasks : BodySettle(t)
    \/ ReturnResults

SpecPool == InitPool /\ [][NextPool]_vars /\ WF_vars(NextPool)

\* the pool has returned with the cursor at n, every index processed, and
\* as many workers started as the smaller of c and n
ReturnedComplete ==
    /\ PoolReturned
    /\ nextIndex = Len(urls)
    /\ \A i \in Positions : calls[i] = 1 /\ writes[i] = 1 /\ settled[i] # "none"
    /\ spawned = IF concurrency < Len(urls) THEN concurrency ELSE Len(urls)
    /\ Len(tpc) = spawned

\* C29: for every batch of n URLs and every concurrency c >= 1, every
\* download settling, downloadWithConcurrency eventually returns; it starts
\* min(c, n) workers, and at return the cursor is n and every index has been
\* processed, also when n < c and when n = 1.
C29_PoolReturns == (concurrency >= 1) ~> ReturnedComplete

\* a pool of two returned for a single URL, having started one worker
C29_Witness ==
    /\ ReturnedComplete
    /\ concurrency = 2
    /\ Len(urls) = 1
    /\ spawned = 1
    /\ tpc = <<"exit">>

(***************************************************************************)
(* The address a download connects to.                                     *)
(***************************************************************************)
\* C30: when the DNS answer for an allowlisted hostname can change between
\* any two steps, the downloader never opens a connection to an address in a
\* reserved range: the address fetch connects to is the address that passed
\* the validator's check in the same attempt.
C30_ConnectsToCheckedAddress ==
    \A i \in Positions :
        log[i].connected # <<>> =>
            /\ log[i].connected = log[i].checked
            /\ ~Reserved(log[i].connected[1].addr)

\* the validator saw a public address, fetch connected to 169.254.169.254,
\* and the body it got there was returned
C30_Witness ==
    /\ op = "downloadImage"
    /\ phase = "returned"
    /\ verdict = <<"ok">>
    /\ log[1].checked[1].addr = [family |-> 4, value |-> <<52, 84, 123, 45>>]
    /\ log[1].connected[1].addr = [family |-> 4, value |-> <<169, 254, 169, 254>>]
    /\ results[1].ok

====
